---- MODULE Spec2Model ----
(***************************************************************************)
(* Version resolution of gh-action-upgrader (src/src/index.ts).            *)
(*                                                                         *)
(* A string is a sequence of one-character strings, so that parsing,       *)
(* validation and rendering are computed and not assumed.  A JavaScript    *)
(* number is a record: Num(n), NaN, or Undef for a missing component.      *)
(***************************************************************************)
EXTENDS Integers, Sequences, FiniteSets, TLC

\* ------------------------------------------------------------------------
\* Bounds
\* ------------------------------------------------------------------------
\* Longest list of releases the fetch returns.
MaxReleases == 3

\* ------------------------------------------------------------------------
\* JavaScript values
\* ------------------------------------------------------------------------
Num(n) == [k |-> "num", n |-> n]
NaN == [k |-> "nan", n |-> 0]
Undef == [k |-> "undef", n |-> 0]

IsNum(x) == x.k = "num"

\* x !== y on number | undefined: NaN differs from everything, itself included.
StrictNe(x, y) == x.k = "nan" \/ y.k = "nan" \/ x # y

\* x > y, x < y, x <= y on numbers: false as soon as one side is NaN.
Gt(x, y) == IsNum(x) /\ IsNum(y) /\ x.n > y.n
Lt(x, y) == IsNum(x) /\ IsNum(y) /\ x.n < y.n
Le(x, y) == IsNum(x) /\ IsNum(y) /\ x.n <= y.n

\* The value Array.prototype.sort sees for a comparator result x - y: the
\* difference, or 0 when the difference is NaN.
SortDiff(x, y) == IF IsNum(x) /\ IsNum(y) THEN x.n - y.n ELSE 0

\* The absent result of getLatestVersion; no string is equal to it.
Null == <<"null">>

\* ------------------------------------------------------------------------
\* Strings
\* ------------------------------------------------------------------------
DecDigits == <<"0", "1", "2", "3", "4", "5", "6", "7", "8", "9">>
HexDigits == DecDigits \o <<"a", "b", "c", "d", "e", "f">>

IndexIn(c, digits) == CHOOSE i \in 1..Len(digits) : digits[i] = c
IsIn(c, digits) == \E i \in 1..Len(digits) : digits[i] = c
IsDigit(c) == IsIn(c, DecDigits)

AllIn(s, digits) == Len(s) > 0 /\ \A i \in 1..Len(s) : IsIn(s[i], digits)
AllDigits(s) == AllIn(s, DecDigits)

RECURSIVE ValueIn(_, _)
\* The value of the non-empty digit string s in base Len(digits).
ValueIn(s, digits) ==
  IF Len(s) = 0 THEN 0
  ELSE ValueIn(SubSeq(s, 1, Len(s) - 1), digits) * Len(digits)
         + (IndexIn(s[Len(s)], digits) - 1)

\* First index of character c in s, 0 when absent.
IndexOf(s, c) ==
  IF \E i \in 1..Len(s) : s[i] = c
  THEN CHOOSE i \in 1..Len(s) : s[i] = c /\ \A j \in 1..(i - 1) : s[j] # c
  ELSE 0

RECURSIVE Split(_, _)
\* String.prototype.split(sep) for a one-character separator: the empty
\* string splits into one empty part.
Split(s, sep) ==
  LET i == IndexOf(s, sep)
  IN IF i = 0 THEN <<s>>
     ELSE <<SubSeq(s, 1, i - 1)>> \o Split(SubSeq(s, i + 1, Len(s)), sep)

\* Number(part) for a part made of digits, '-' and lower-case letters other
\* than 'e' and 'o': the empty string is 0, a decimal literal with an optional
\* '-' sign, a '0x' hexadecimal or '0b' binary literal; anything else is NaN.
Number(p) ==
  IF Len(p) = 0 THEN Num(0)
  ELSE IF AllDigits(p) THEN Num(ValueIn(p, DecDigits))
  ELSE IF p[1] = "-" /\ AllDigits(Tail(p)) THEN Num(0 - ValueIn(Tail(p), DecDigits))
  ELSE IF Len(p) > 2 /\ p[1] = "0" /\ p[2] = "x" /\ AllIn(SubSeq(p, 3, Len(p)), HexDigits)
       THEN Num(ValueIn(SubSeq(p, 3, Len(p)), HexDigits))
  ELSE IF Len(p) > 2 /\ p[1] = "0" /\ p[2] = "b" /\ AllIn(SubSeq(p, 3, Len(p)), <<"0", "1">>)
       THEN Num(ValueIn(SubSeq(p, 3, Len(p)), <<"0", "1">>))
  ELSE NaN

\* ------------------------------------------------------------------------
\* parseVersion
\* ------------------------------------------------------------------------
\* version.replace(/^v/i, ''), as a case-insensitive strip would be.
StripVAnyCase(s) == IF Len(s) > 0 /\ s[1] \in {"v", "V"} THEN Tail(s) ELSE s

\* version.replace(/^v/, '')
StripV(s) == IF Len(s) > 0 /\ s[1] = "v" THEN Tail(s) ELSE s

\* parseVersion as it would be with zero-fill: a component that is not
\* written is 0.
parseVersionZeroFill(version) ==
  LET cleanVersion == StripV(version)
      split == Split(cleanVersion, ".")
      parts == [i \in 1..Len(split) |-> Number(split[i])]
  IN [major |-> parts[1],
      minor |-> IF Len(parts) > 1 THEN parts[2] ELSE Num(0),
      patch |-> IF Len(parts) > 2 THEN parts[3] ELSE Num(0),
      raw |-> cleanVersion]

parseVersion(version) ==
  LET cleanVersion == StripV(version)
      split == Split(cleanVersion, ".")
      parts == [i \in 1..Len(split) |-> Number(split[i])]
  IN [major |-> parts[1],
      minor |-> IF Len(parts) > 1 THEN parts[2] ELSE Undef,
      patch |-> IF Len(parts) > 2 THEN parts[3] ELSE Undef,
      raw |-> cleanVersion]

\* ------------------------------------------------------------------------
\* validate of compare-versions
\* ------------------------------------------------------------------------
PrefixChars == {"v", "V", "^", "~", "<", ">", "="}

RECURSIVE DropPrefix(_)
\* The part of s after the leading [v^~<>=]* of the semver pattern.
DropPrefix(s) ==
  IF Len(s) > 0 /\ s[1] \in PrefixChars THEN DropPrefix(Tail(s)) ELSE s

\* ([x*]|\d+), case-insensitive
IsComponent(p) == p \in {<<"x">>, <<"X">>, <<"*">>} \/ AllDigits(p)

\* [\da-z\-] , case-insensitive
IsIdentChar(c) ==
  \/ IsDigit(c)
  \/ c = "-"
  \/ c \in {"a", "b", "c", "d", "e", "f", "g", "h", "i", "j", "k", "l", "m",
            "n", "o", "p", "q", "r", "s", "t", "u", "v", "w", "x", "y", "z",
            "A", "B", "C", "D", "E", "F", "G", "H", "I", "J", "K", "L", "M",
            "N", "O", "P", "Q", "R", "S", "T", "U", "V", "W", "X", "Y", "Z"}

\* [\da-z\-]+(?:\.[\da-z\-]+)*
IsIdentList(s) ==
  LET ids == Split(s, ".")
  IN \A i \in 1..Len(ids) :
       Len(ids[i]) > 0 /\ \A j \in 1..Len(ids[i]) : IsIdentChar(ids[i][j])

\* The semver pattern after its prefix: 1 to 4 dot-separated components,
\* and a pre-release and build suffix only after a third component.
SemverBody(t) ==
  LET plus == IndexOf(t, "+")
      beforeBuild == IF plus = 0 THEN t ELSE SubSeq(t, 1, plus - 1)
      build == IF plus = 0 THEN <<>> ELSE SubSeq(t, plus + 1, Len(t))
      dash == IndexOf(beforeBuild, "-")
      main == IF dash = 0 THEN beforeBuild ELSE SubSeq(beforeBuild, 1, dash - 1)
      pre == IF dash = 0 THEN <<>> ELSE SubSeq(beforeBuild, dash + 1, Len(beforeBuild))
      comps == Split(main, ".")
  IN /\ Len(comps) \in 1..4
     /\ AllDigits(comps[1])
     /\ \A i \in 2..Len(comps) : IsComponent(comps[i])
     /\ plus # 0 => (Len(comps) >= 3 /\ IsIdentList(build))
     /\ dash # 0 => (Len(comps) >= 3 /\ IsIdentList(pre))

\* typeof version === 'string' && /^[v\d]/.test(version) && semver.test(version)
validate(version) ==
  /\ Len(version) > 0
  /\ (version[1] = "v" \/ IsDigit(version[1]))
  /\ SemverBody(DropPrefix(version))

\* ------------------------------------------------------------------------
\* Array.prototype.sort, as V8 runs it on fewer than 64 elements: one run is
\* counted (and reversed when strictly descending), the rest is inserted by
\* binary insertion.  The order of the result is the comparator's alone only
\* when the comparator is a consistent order; otherwise it is this one.
\* ------------------------------------------------------------------------
\* The comparator of getLatestVersion, as the sort sees it (NaN counts as 0).
compareVersions(a, b) ==
  IF StrictNe(a.major, b.major) THEN SortDiff(b.major, a.major)
  ELSE IF a.minor # Undef /\ b.minor # Undef /\ StrictNe(a.minor, b.minor)
       THEN SortDiff(b.minor, a.minor)
  ELSE IF a.patch # Undef /\ b.patch # Undef
       THEN SortDiff(b.patch, a.patch)
  ELSE 0

RECURSIVE RunLength(_, _, _)
\* Length of the run that starts at arr[1], given arr[1..n] is in it.
RunLength(arr, n, isDescending) ==
  IF n >= Len(arr) THEN n
  ELSE LET order == compareVersions(arr[n + 1], arr[n])
       IN IF isDescending
          THEN (IF order >= 0 THEN n ELSE RunLength(arr, n + 1, isDescending))
          ELSE (IF order < 0 THEN n ELSE RunLength(arr, n + 1, isDescending))

Reverse(s) == [i \in 1..Len(s) |-> s[Len(s) + 1 - i]]

\* CountAndMakeRun: the run's length and the array with the run made ascending.
CountAndMakeRun(arr) ==
  IF Len(arr) < 2 THEN [run |-> Len(arr), arr |-> arr]
  ELSE LET isDescending == compareVersions(arr[2], arr[1]) < 0
           run == RunLength(arr, 2, isDescending)
       IN [run |-> run,
           arr |-> IF isDescending
                   THEN Reverse(SubSeq(arr, 1, run)) \o SubSeq(arr, run + 1, Len(arr))
                   ELSE arr]

RECURSIVE InsertionPoint(_, _, _, _)
\* Binary search for pivot in arr[left+1 .. right] (0-based half-open [left, right)).
InsertionPoint(arr, pivot, left, right) ==
  IF left >= right THEN left
  ELSE LET mid == left + ((right - left) \div 2)
       IN IF compareVersions(pivot, arr[mid + 1]) < 0
          THEN InsertionPoint(arr, pivot, left, mid)
          ELSE InsertionPoint(arr, pivot, mid + 1, right)

RECURSIVE BinaryInsertionSort(_, _)
\* arr[1..start] is sorted; insert the elements after it one by one.
BinaryInsertionSort(arr, start) ==
  IF start >= Len(arr) THEN arr
  ELSE LET pivot == arr[start + 1]
           left == InsertionPoint(arr, pivot, 0, start)
           moved == SubSeq(arr, 1, left) \o <<pivot>> \o SubSeq(arr, left + 1, start)
                      \o SubSeq(arr, start + 2, Len(arr))
       IN BinaryInsertionSort(moved, start + 1)

sort(arr) ==
  IF Len(arr) < 2 THEN arr
  ELSE LET made == CountAndMakeRun(arr)
       IN BinaryInsertionSort(made.arr, made.run)

\* ------------------------------------------------------------------------
\* getLatestVersion
\* ------------------------------------------------------------------------
\* releases.map(parseVersion).filter(v => validate(v.raw))
allVersions(releases) ==
  SelectSeq([i \in 1..Len(releases) |-> parseVersion(releases[i])],
            LAMBDA v : validate(v.raw))

\* allVersions[0] after the sort.
latestVersion(releases) == sort(allVersions(releases))[1]

\* releases.find(...): the first release, in fetched order, of the given
\* major whose minor and patch are set or not as asked; Null when none is.
findRelease(releases, major, wantMinor) ==
  LET matches(i) ==
        LET version == parseVersion(releases[i])
        IN /\ ~StrictNe(version.major, major)
           /\ (version.minor # Undef) = wantMinor
           /\ version.patch = Undef
      found == {i \in 1..Len(releases) : matches(i)}
  IN IF found = {} THEN Null
     ELSE releases[CHOOSE i \in found : \A j \in found : i <= j]

\* The gate with < for <=: a same-major latest version passes it.
noUpgradeNeededStrict(latest, currentVersion) == Lt(latest.major, currentVersion.major)

\* The upgrade gate: no newer major version exists.
noUpgradeNeeded(latest, currentVersion) == Le(latest.major, currentVersion.major)

\* The latest version cut down to major.minor, its patch dropped: what the
\* specification has the fallback of Case 2 return.
fullVersionTruncated(latest) ==
  LET parts == Split(latest.raw, ".")
  IN IF Len(parts) < 3 THEN <<"v">> \o latest.raw
     ELSE <<"v">> \o parts[1] \o <<".">> \o parts[2]

\* `v${latestVersion.raw}`
fullVersion(latest) == <<"v">> \o latest.raw

\* Case 1, the original version is major only.
majorOnlyTarget(releases, latest) ==
  LET majorOnlyRelease == findRelease(releases, latest.major, FALSE)
      majorMinorRelease == findRelease(releases, latest.major, TRUE)
  IN IF majorOnlyRelease # Null THEN majorOnlyRelease
     ELSE IF majorMinorRelease # Null THEN majorMinorRelease
     ELSE fullVersion(latest)

\* Case 2, the original version is major.minor.
majorMinorTarget(releases, latest) ==
  LET majorMinorRelease == findRelease(releases, latest.major, TRUE)
  IN IF majorMinorRelease # Null THEN majorMinorRelease ELSE fullVersion(latest)

\* The value the call resolves to once listReleases has answered.
getLatestVersion(current, releases) ==
  LET currentVersion == parseVersion(current)
  IN IF Len(allVersions(releases)) = 0 THEN Null
     ELSE LET latest == latestVersion(releases)
          IN IF noUpgradeNeeded(latest, currentVersion) THEN Null
             ELSE IF currentVersion.minor = Undef THEN majorOnlyTarget(releases, latest)
             ELSE IF currentVersion.patch = Undef THEN majorMinorTarget(releases, latest)
             ELSE fullVersion(latest)

\* ------------------------------------------------------------------------
\* getLatestVersion of the shipped build (dist/index.js)
\* ------------------------------------------------------------------------
\* The gate of the build: it closes for a major-only current version alone.
distNoUpgradeNeeded(latest, currentVersion) ==
  Le(latest.major, currentVersion.major) /\ currentVersion.minor = Undef

\* The value the build's call resolves to once listTags has answered with
\* the names given; parseVersion, validate, the sort and the three cases are
\* those of the source.
distGetLatestVersion(current, names) ==
  LET currentVersion == parseVersion(current)
  IN IF Len(allVersions(names)) = 0 THEN Null
     ELSE LET latest == latestVersion(names)
          IN IF distNoUpgradeNeeded(latest, currentVersion) THEN Null
             ELSE IF currentVersion.minor = Undef THEN majorOnlyTarget(names, latest)
             ELSE IF currentVersion.patch = Undef THEN majorMinorTarget(names, latest)
             ELSE fullVersion(latest)

\* ------------------------------------------------------------------------
\* isNewerVersion
\* ------------------------------------------------------------------------
\* A comparison that fills the missing components of both sides with 0 and
\* compares all three, whatever the precision of current.
isNewerVersionZeroFill(current, latest) ==
  LET zero(x) == IF x = Undef THEN Num(0) ELSE x
      c == parseVersion(current)
      l == parseVersion(latest)
  IN \/ Gt(l.major, c.major)
     \/ ~StrictNe(l.major, c.major) /\ Gt(zero(l.minor), zero(c.minor))
     \/ /\ ~StrictNe(l.major, c.major)
        /\ ~StrictNe(zero(l.minor), zero(c.minor))
        /\ Gt(zero(l.patch), zero(c.patch))

\* A comparison that is not strict: a patch that is equal counts as newer.
isNewerVersionOrEqual(current, latest) ==
  LET currentVer == parseVersion(current)
      latestVer == parseVersion(latest)
  IN IF Gt(latestVer.major, currentVer.major) THEN TRUE
     ELSE IF Lt(latestVer.major, currentVer.major) THEN FALSE
     ELSE IF currentVer.minor # Undef /\ latestVer.minor # Undef
          THEN (IF Gt(latestVer.minor, currentVer.minor) THEN TRUE
                ELSE IF Lt(latestVer.minor, currentVer.minor) THEN FALSE
                ELSE IF currentVer.patch # Undef /\ latestVer.patch # Undef
                     THEN ~Lt(latestVer.patch, currentVer.patch)
                ELSE FALSE)
     ELSE FALSE

isNewerVersion(current, latest) ==
  LET currentVer == parseVersion(current)
      latestVer == parseVersion(latest)
  IN IF Gt(latestVer.major, currentVer.major) THEN TRUE
     ELSE IF Lt(latestVer.major, currentVer.major) THEN FALSE
     ELSE IF currentVer.minor # Undef /\ latestVer.minor # Undef
          THEN (IF Gt(latestVer.minor, currentVer.minor) THEN TRUE
                ELSE IF Lt(latestVer.minor, currentVer.minor) THEN FALSE
                ELSE IF currentVer.patch # Undef /\ latestVer.patch # Undef
                     THEN Gt(latestVer.patch, currentVer.patch)
                ELSE FALSE)
     ELSE FALSE

\* ------------------------------------------------------------------------
\* Inputs
\* ------------------------------------------------------------------------
\* Release tag names of the form v?<int>(.<int>(.<int>)?)?
\* (v2, v3.5, v4, v4.1, v4.1.2, v5.0.1)
WellFormedTags ==
  { <<"v", "2">>,
    <<"v", "3", ".", "5">>,
    <<"v", "4">>,
    <<"v", "4", ".", "1">>,
    <<"v", "4", ".", "1", ".", "2">>,
    <<"v", "5", ".", "0", ".", "1">> }

\* Release tag names not of that form
\* (abc, v4.1-rc, v5.0.0-rc, v4.1.2.3, vv9)
MalformedTags ==
  { <<"a", "b", "c">>,
    <<"v", "4", ".", "1", "-", "r", "c">>,
    <<"v", "5", ".", "0", ".", "0", "-", "r", "c">>,
    <<"v", "4", ".", "1", ".", "2", ".", "3">>,
    <<"v", "v", "9">> }

Tags == WellFormedTags \cup MalformedTags

\* Pinned versions of the form v?<int>(.<int>(.<int>)?)?
\* (v3, v3.1, v3.1.0, v4, 4.1.0)
WellFormedPins ==
  { <<"v", "3">>,
    <<"v", "3", ".", "1">>,
    <<"v", "3", ".", "1", ".", "0">>,
    <<"v", "4">>,
    <<"4", ".", "1", ".", "0">> }

\* Pinned versions not of that form
\* (main, v3., v3.1.0.4, V3.0)
MalformedPins ==
  { <<"m", "a", "i", "n">>,
    <<"v", "3", ".">>,
    <<"v", "3", ".", "1", ".", "0", ".", "4">>,
    <<"V", "3", ".", "0">> }

Pins == WellFormedPins \cup MalformedPins

\* The lists listReleases can answer with: any order, repetitions included.
ReleaseLists == UNION {[1..n -> Tags] : n \in 0..MaxReleases}

\* The calls createPullRequest makes, in order.
ApiCalls == <<"getRef", "createRef", "getContent", "createOrUpdateFileContents",
              "pulls.create">>

\* ------------------------------------------------------------------------
\* Workflow files
\* ------------------------------------------------------------------------
\* Most lines of a scanned workflow file.
MaxSteps == 2

\* The `uses` values of the steps of a workflow file.
\* (o/r@v3, o/r@v-1, o/r@v3.1, o/r@v3.1.0, actions/c@v3, ./l)
UsesValues ==
  { <<"o", "/", "r", "@", "v", "3">>,
    <<"o", "/", "r", "@", "v", "-", "1">>,
    <<"o", "/", "r", "@", "v", "3", ".", "1">>,
    <<"o", "/", "r", "@", "v", "3", ".", "1", ".", "0">>,
    <<"a", "c", "t", "i", "o", "n", "s", "/", "c", "@", "v", "3">>,
    <<".", "/", "l">> }

\* Text of a workflow file that is no step: a comment naming a reference.
\* (# o/r@v3)
Comments == { <<"#", " ", "o", "/", "r", "@", "v", "3">> }

\* A workflow file is the sequence of its lines: the `uses` value of a step,
\* or a comment.
FileLines == UsesValues \cup Comments

Workflows == UNION {[1..n -> FileLines] : n \in 1..MaxSteps}

\* yaml.load drops comments: such a line is no step of the parsed workflow.
IsComment(line) == Len(line) > 0 /\ line[1] = "#"

\* The reference a third-party step o/r pinned at version pin is written as.
ThirdPartyUses(pin) == <<"o", "/", "r", "@">> \o pin

\* What the upstream repository can hold when run scans a whole workflow:
\* its releases (none, v4, vv9, 5.0.1, v4.$& and v4, or a release with an
\* empty tag name and v0.1.0) and its tags (none, or v4).
RunReleaseLists ==
  {<<>>, <<<<"v", "4">>>>, <<<<"v", "v", "9">>>>, <<<<"5", ".", "0", ".", "1">>>>,
   <<<<"v", "4", ".", "$", "&">>, <<"v", "4">>>>,
   <<<<>>, <<"v", "0", ".", "1", ".", "0">>>>}
RunTagLists == {<<>>, <<<<"v", "4">>>>}

\* An absent string (undefined).
Undefined == <<"undefined">>

StartsWith(s, prefix) ==
  Len(s) >= Len(prefix) /\ SubSeq(s, 1, Len(prefix)) = prefix

\* The ActionReference processSteps pushes for the step at line k, as a
\* one-element sequence, or nothing.  The field step is not in the code: it
\* records the line the reference was taken from.
stepActions(uses, k) ==
  LET atParts == Split(uses, "@")
      ownerRepo == atParts[1]
      version == IF Len(atParts) > 1 THEN atParts[2] ELSE Undefined
      slashParts == Split(ownerRepo, "/")
      owner == slashParts[1]
      repo == IF Len(slashParts) > 1 THEN slashParts[2] ELSE <<>>
  IN IF Len(owner) > 0 /\ Len(repo) > 0 /\ ~StartsWith(uses, <<".", "/">>)
     THEN <<[owner |-> owner,
             repo |-> repo,
             currentVersion |-> version,
             isGitHubAction |-> (owner = <<"a", "c", "t", "i", "o", "n", "s">>),
             step |-> k]>>
     ELSE <<>>

RECURSIVE processSteps(_, _)
\* The references of the steps from line k on, in order.
processSteps(workflow, k) ==
  IF k > Len(workflow) THEN <<>>
  ELSE (IF IsComment(workflow[k]) THEN <<>> ELSE stepActions(workflow[k], k))
         \o processSteps(workflow, k + 1)

extractActionsFromWorkflow(workflow) == processSteps(workflow, 1)

RECURSIVE Join(_, _)
\* The text of a file whose lines are given.
Join(lines, sep) ==
  IF Len(lines) = 0 THEN <<>>
  ELSE IF Len(lines) = 1 THEN lines[1]
  ELSE lines[1] \o <<sep>> \o Join(Tail(lines), sep)

\* The grave accent and the apostrophe, as one-character strings.
GraveAccent == SubSeq("`'", 1, 1)
Apostrophe == SubSeq("`'", 2, 2)

RECURSIVE GetSubstitution(_, _, _, _)
\* What a replacement string stands for when the pattern is a string: $$ is
\* a dollar sign, $& the matched text, a dollar sign and a grave accent the
\* content before the match, a dollar sign and an apostrophe the content
\* after it; everything else, a dollar sign before a digit or '<' included
\* (there are no captures), is taken as it is written.
GetSubstitution(replacement, matched, before, after) ==
  IF Len(replacement) = 0 THEN <<>>
  ELSE IF /\ Len(replacement) >= 2
          /\ replacement[1] = "$"
          /\ replacement[2] \in {"$", "&", GraveAccent, Apostrophe}
       THEN (CASE replacement[2] = "$" -> <<"$">>
               [] replacement[2] = "&" -> matched
               [] replacement[2] = GraveAccent -> before
               [] replacement[2] = Apostrophe -> after)
              \o GetSubstitution(SubSeq(replacement, 3, Len(replacement)),
                                 matched, before, after)
       ELSE <<replacement[1]>>
              \o GetSubstitution(Tail(replacement), matched, before, after)

\* content.replace(pattern, replacement) for a string pattern: the first
\* occurrence is replaced by what the replacement stands for, the content is
\* returned as it is when there is none.
replace(content, pattern, replacement) ==
  LET starts == {i \in 1..(Len(content) - Len(pattern) + 1) :
                   SubSeq(content, i, i + Len(pattern) - 1) = pattern}
  IN IF starts = {} THEN content
     ELSE LET i == CHOOSE i \in starts : \A j \in starts : i <= j
              before == SubSeq(content, 1, i - 1)
              after == SubSeq(content, i + Len(pattern), Len(content))
          IN before \o GetSubstitution(replacement, pattern, before, after)
               \o after

\* `${action.owner}/${action.repo}@${version}`
reference(action, version) == action.owner \o <<"/">> \o action.repo \o <<"@">> \o version

\* The updatedContent of createPullRequest.
updatedContent(content, action, newVersion) ==
  replace(content, reference(action, action.currentVersion),
          reference(action, newVersion))

\* ------------------------------------------------------------------------
\* run
\* ------------------------------------------------------------------------
VARIABLES
  pc,           \* position of run: "scan", "fetch", "list", "resolve", "guard",
                \* "pr", "done",
                \* or "failed" once its catch has marked the run failed
  workflow,     \* the scanned workflow file
  actions,      \* actionsToUpdate, the scanned references in order
  idx,          \* position in actions of the loop of run
  current,      \* action.currentVersion of the action last looked up
  releases,     \* the list listReleases answered with for it
  tags,         \* the tag names of its upstream repository
  latest,       \* what getLatestVersion returned for it, Null when nothing
  calls,        \* GitHub API calls createPullRequest has made for it so far
  pulls,        \* the pull requests opened so far
  inflight,     \* positions of the actions whose handling has not finished
  results,      \* the calls of getLatestVersion that returned on a fetched
                \* list, in order: current version, list, value returned
  updateCount   \* run's counter of update pull requests

vars == <<pc, workflow, actions, idx, current, releases, tags, latest, calls,
          pulls, inflight, results, updateCount>>

Init ==
  /\ pc = "scan"
  /\ workflow = <<>>
  /\ actions = <<>>
  /\ idx = 1
  /\ current = <<>>
  /\ releases = <<>>
  /\ tags = <<>>
  /\ latest = Null
  /\ calls = <<>>
  /\ pulls = <<>>
  /\ inflight = {}
  /\ results = <<>>
  /\ updateCount = 0

\* scanWorkflowFiles on the given file; the loop starts, or ends at once.
ScanFile(file) ==
  /\ pc = "scan"
  /\ workflow' = file
  /\ actions' = extractActionsFromWorkflow(file)
  /\ pc' = IF Len(actions') > 0 THEN "fetch" ELSE "done"
  /\ current' = IF Len(actions') > 0 THEN actions'[1].currentVersion ELSE current
  /\ UNCHANGED <<idx, releases, tags, latest, calls, pulls, inflight, updateCount, results>>

\* run fails before it has scanned anything: the required input github-token
\* is missing, github.context.repo throws, or readdirSync throws on the
\* workflows directory, which stands outside any try of scanWorkflowFiles.
\* The catch of run marks the run failed; no call is made.
ScanFails ==
  /\ pc = "scan"
  /\ pc' = "failed"
  /\ UNCHANGED <<workflow, actions, idx, current, releases, tags, latest, calls,
                 pulls, inflight, updateCount, results>>

\* scanWorkflowFiles yields a reference pinned at some version.
Scan == \E pin \in Pins : ScanFile(<<ThirdPartyUses(pin)>>)

\* scanWorkflowFiles on a workflow of several steps.
ScanWorkflowFiles == \E file \in Workflows : ScanFile(file)

\* run takes the action at idx and calls getLatestVersion, which calls
\* listReleases and awaits its answer: the handling of the action has
\* started, no list is known.
CallListReleases ==
  /\ pc = "fetch"
  /\ current' = actions[idx].currentVersion
  /\ releases' = <<>>
  /\ tags' = <<>>
  /\ latest' = Null
  /\ calls' = <<>>
  /\ inflight' = inflight \cup {idx}
  /\ pc' = "list"
  /\ UNCHANGED <<workflow, actions, idx, pulls, updateCount, results>>

\* listReleases answers with list; tagList is what the upstream holds as
\* tags.
ListReleases(list, tagList) ==
  /\ pc = "list"
  /\ releases' = list
  /\ tags' = tagList
  /\ pc' = "resolve"
  /\ UNCHANGED <<workflow, actions, idx, current, latest, calls, pulls,
                 inflight, updateCount, results>>

\* getLatestVersion as it would be with the targets it returned kept from one
\* call to the next: a target returned before in the run is not returned
\* again.
ResolveOnce ==
  /\ pc = "resolve"
  /\ LET target == IF current = Undefined THEN Null
                   ELSE getLatestVersion(current, releases)
     IN latest' = IF \E i \in 1..Len(results) : results[i].latest = target
                  THEN Null ELSE target
  /\ results' = Append(results, [current |-> current,
                                 releases |-> releases,
                                 latest |-> latest'])
  /\ pc' = "guard"
  /\ UNCHANGED <<workflow, actions, idx, current, releases, tags, calls, pulls,
                 inflight, updateCount>>

\* getLatestVersion goes on with the list listReleases answered with and
\* returns.  A reference without a version makes parseVersion throw inside
\* the try, which returns null.
Resolve ==
  /\ pc = "resolve"
  /\ latest' = IF current = Undefined THEN Null
               ELSE getLatestVersion(current, releases)
  /\ results' = Append(results, [current |-> current,
                                 releases |-> releases,
                                 latest |-> latest'])
  /\ pc' = "guard"
  /\ UNCHANGED <<workflow, actions, idx, current, releases, tags, calls, pulls,
                 inflight, updateCount>>

\* getLatestVersion, listReleases answering with a list.
GetLatestVersion ==
  pc = "list" /\ \E list \in ReleaseLists : ListReleases(list, <<>>)

\* getLatestVersion while run handles a whole workflow.
GetLatestVersionOfUpstream ==
  \E list \in RunReleaseLists, tagList \in RunTagLists : ListReleases(list, tagList)

\* getLatestVersion, listReleases throwing: the catch returns null.
ListReleasesFails ==
  /\ pc = "list"
  /\ latest' = Null
  /\ pc' = "guard"
  /\ UNCHANGED <<workflow, actions, idx, current, releases, tags, calls, pulls,
                 inflight, updateCount, results>>

\* The loop as it would be without awaiting: it takes the next action while
\* the handling of the action at idx goes on.
NextActionNotAwaited ==
  /\ idx' = idx + 1
  /\ inflight' = inflight
  /\ pc' = IF idx < Len(actions) THEN "fetch" ELSE "done"

\* The handling of the action at idx is over: the loop takes the next action,
\* or ends.
NextAction ==
  /\ idx' = idx + 1
  /\ inflight' = inflight \ {idx}
  /\ pc' = IF idx < Len(actions) THEN "fetch" ELSE "done"

\* !latestVersion: getLatestVersion returned null, or the empty string.
NoTarget(target) == target = Null \/ target = <<>>

\* run: no latest version, a warning and the next action.
NoLatestVersion ==
  /\ pc = "guard"
  /\ NoTarget(latest)
  /\ NextAction
  /\ UNCHANGED <<workflow, actions, current, releases, tags, latest, calls,
                 pulls, updateCount, results>>

\* run as it would be without the final guard: createPullRequest is called for
\* every target getLatestVersion returned.
CreatePullRequestUnguarded ==
  /\ pc = "guard"
  /\ ~NoTarget(latest)
  /\ pc' = "pr"
  /\ calls' = <<ApiCalls[1]>>
  /\ UNCHANGED <<workflow, actions, idx, current, releases, tags, latest, pulls,
                 inflight, updateCount, results>>

\* run: the guard passes and createPullRequest is called; it reads the
\* workflow file, edits the content and makes its first call, whose answer
\* it awaits.
CreatePullRequest ==
  /\ pc = "guard"
  /\ ~NoTarget(latest)
  /\ isNewerVersion(current, latest)
  /\ pc' = "pr"
  /\ calls' = <<ApiCalls[1]>>
  /\ UNCHANGED <<workflow, actions, idx, current, releases, tags, latest, pulls,
                 inflight, updateCount, results>>

\* run: the guard passes and createPullRequest is called, but the workflow
\* file cannot be read any more.  readFileSync stands before the try, so
\* createPullRequest rejects and the catch of run marks the run failed: no
\* call is made, nothing is counted, the remaining actions are not handled.
ReadFileFails ==
  /\ pc = "guard"
  /\ ~NoTarget(latest)
  /\ isNewerVersion(current, latest)
  /\ pc' = "failed"
  /\ inflight' = inflight \ {idx}
  /\ UNCHANGED <<workflow, actions, idx, current, releases, tags, latest, calls,
                 pulls, updateCount, results>>

\* createPullRequest as it would be with the pull request opened right after
\* the branch is created, before the file is updated.
CallReturnsEarly ==
  /\ pc = "pr"
  /\ Len(calls) < Len(ApiCalls)
  /\ LET early == <<"getRef", "createRef", "pulls.create", "getContent",
                    "createOrUpdateFileContents">>
     IN calls' = Append(calls, early[Len(calls) + 1])
  /\ pulls' = IF Len(calls) = 2
              THEN Append(pulls,
                          [action |-> actions[idx],
                           newVersion |-> latest,
                           content |-> updatedContent(Join(workflow, "\n"),
                                                      actions[idx], latest)])
              ELSE pulls
  /\ UNCHANGED <<pc, workflow, actions, idx, current, releases, tags, latest,
                 inflight, updateCount, results>>

\* createPullRequest: the call it awaits returns and it makes the next one.
CallReturns ==
  /\ pc = "pr"
  /\ Len(calls) < Len(ApiCalls)
  /\ calls' = Append(calls, ApiCalls[Len(calls) + 1])
  /\ UNCHANGED <<pc, workflow, actions, idx, current, releases, tags, latest,
                 pulls, inflight, updateCount, results>>

\* createPullRequest: pulls.create returns, the pull request is open;
\* createPullRequest returns, run counts the update and takes the next action.
PullRequestCreated ==
  /\ pc = "pr"
  /\ Len(calls) = Len(ApiCalls)
  /\ pulls' = Append(pulls,
                     [action |-> actions[idx],
                      newVersion |-> latest,
                      content |-> updatedContent(Join(workflow, "\n"),
                                                 actions[idx], latest)])
  /\ updateCount' = updateCount + 1
  /\ NextAction
  /\ UNCHANGED <<workflow, actions, current, releases, tags, latest, calls, results>>

\* createPullRequest as it would be without its catch: a call that throws
\* ends the run as failed, the remaining actions unhandled.
CallThrowsUncaught ==
  /\ pc = "pr"
  /\ pc' = "failed"
  /\ inflight' = inflight \ {idx}
  /\ UNCHANGED <<workflow, actions, idx, current, releases, tags, latest, calls,
                 pulls, updateCount, results>>

\* createPullRequest: the call it awaits throws; the catch warns and
\* createPullRequest returns, no later call made.  run counts the update all
\* the same and takes the next action.
CallThrows ==
  /\ pc = "pr"
  /\ updateCount' = updateCount + 1
  /\ NextAction
  /\ UNCHANGED <<workflow, actions, current, releases, tags, latest, calls,
                 pulls, results>>

\* run: the guard fails, the action is reported up to date.
UpToDate ==
  /\ pc = "guard"
  /\ ~NoTarget(latest)
  /\ ~isNewerVersion(current, latest)
  /\ NextAction
  /\ UNCHANGED <<workflow, actions, current, releases, tags, latest, calls,
                 pulls, updateCount, results>>

\* One pass over a single scanned reference, any list of releases fetched.
Next ==
  \/ Scan
  \/ ScanFails
  \/ GetLatestVersion
  \/ CallListReleases
  \/ Resolve
  \/ ListReleasesFails
  \/ NoLatestVersion
  \/ CreatePullRequest
  \/ ReadFileFails
  \/ CallReturns
  \/ PullRequestCreated
  \/ CallThrows
  \/ UpToDate

Spec == Init /\ [][Next]_vars

\* run over a whole workflow file.
NextRun ==
  \/ ScanWorkflowFiles
  \/ ScanFails
  \/ GetLatestVersionOfUpstream
  \/ CallListReleases
  \/ Resolve
  \/ ListReleasesFails
  \/ NoLatestVersion
  \/ CreatePullRequest
  \/ ReadFileFails
  \/ CallReturns
  \/ PullRequestCreated
  \/ CallThrows
  \/ UpToDate

SpecRun == Init /\ [][NextRun]_vars

\* Workflow files whose steps all reference o/r, pinned at v3 or at v3.1.0.
PinnedWorkflows ==
  UNION {[1..n -> {ThirdPartyUses(<<"v", "3">>),
                   ThirdPartyUses(<<"v", "3", ".", "1", ".", "0">>)}] :
           n \in 1..MaxSteps}

\* scanWorkflowFiles on such a workflow.
ScanPinnedWorkflow == \E file \in PinnedWorkflows : ScanFile(file)

\* getLatestVersion, listReleases answering with no release, v4 or vv9.
GetLatestVersionOfReleases ==
  \E list \in {<<>>, <<<<"v", "4">>>>, <<<<"v", "v", "9">>>>} : ListReleases(list, <<>>)

\* run to its end: every awaited call returns or throws in the end, so a step
\* that can be taken is taken.
NextRunFair ==
  \/ ScanPinnedWorkflow
  \/ ScanFails
  \/ GetLatestVersionOfReleases
  \/ CallListReleases
  \/ Resolve
  \/ ListReleasesFails
  \/ NoLatestVersion
  \/ CreatePullRequest
  \/ ReadFileFails
  \/ CallReturns
  \/ PullRequestCreated
  \/ CallThrows
  \/ UpToDate

SpecRunFair == Init /\ [][NextRunFair]_vars /\ WF_vars(NextRunFair)

\* ------------------------------------------------------------------------
\* The specified grammar and ordering, for stating the properties
\* ------------------------------------------------------------------------
\* s has the form v?<int>(.<int>(.<int>)?)?
WellFormed(s) ==
  LET parts == Split(StripV(s), ".")
  IN Len(parts) \in 1..3 /\ \A i \in 1..Len(parts) : AllDigits(parts[i])

\* Number of components a well-formed version is written with.
Precision(s) == Len(Split(StripV(s), "."))

\* getLatestVersion has returned.
Resolved == pc \in {"guard", "done"}

\* Indices of the fetched entries that are candidates: the well-formed ones.
Candidates == {i \in 1..Len(releases) : WellFormed(releases[i])}

MajorOf(s) == parseVersion(s).major

\* Every fetched entry is well-formed.
AllWellFormed == \A i \in 1..Len(releases) : WellFormed(releases[i])

\* Some candidate has a major strictly greater than the current major.
SomeGreaterMajor ==
  \E i \in Candidates : Gt(MajorOf(releases[i]), MajorOf(current))

\* The specified ranking key (major, minor ?? -1, patch ?? -1) of a
\* well-formed version.
OrMinusOne(x) == IF x = Undef THEN 0 - 1 ELSE x.n
Key(s) ==
  LET v == parseVersion(s)
  IN <<v.major.n, OrMinusOne(v.minor), OrMinusOne(v.patch)>>

KeyLe(a, b) ==
  \/ a[1] < b[1]
  \/ a[1] = b[1] /\ a[2] < b[2]
  \/ a[1] = b[1] /\ a[2] = b[2] /\ a[3] <= b[3]

\* Indices of the candidates that rank highest under the specified key.
Best == {i \in Candidates : \A j \in Candidates : KeyLe(Key(releases[j]), Key(releases[i]))}

\* Indices of the candidates on the best major line written with n components.
OnBestLine(n) ==
  {i \in Candidates : /\ Precision(releases[i]) = n
                      /\ \E b \in Best : MajorOf(releases[i]) = MajorOf(releases[b])}

\* The specified comparator on well-formed versions: the components current
\* is written with are compared in order, a component the candidate lacks
\* counting as 0, and the candidate is newer when strictly greater.
SpecIsNewer(cur, cand) ==
  LET n == Precision(cur)
      c == Key(cur)
      d == parseVersion(cand)
      zero(x) == IF x = Undef THEN 0 ELSE x.n
      k == <<d.major.n, zero(d.minor), zero(d.patch)>>
  IN \/ k[1] > c[1]
     \/ n >= 2 /\ k[1] = c[1] /\ k[2] > c[2]
     \/ n >= 3 /\ k[1] = c[1] /\ k[2] = c[2] /\ k[3] > c[3]

\* A parse result that is a VersionSpec: non-negative integer components,
\* a patch only with a minor.
IsVersionSpec(v) ==
  /\ IsNum(v.major) /\ v.major.n >= 0
  /\ v.minor # Undef => (IsNum(v.minor) /\ v.minor.n >= 0)
  /\ v.patch # Undef => (IsNum(v.patch) /\ v.patch.n >= 0 /\ v.minor # Undef)

\* The fetched list without its malformed entries.
WellFormedOnly(list) == SelectSeq(list, WellFormed)

\* The lists that hold the entries of list in some order.
Reorderings(list) ==
  LET n == Len(list)
  IN {[i \in 1..n |-> list[p[i]]] :
        p \in {q \in [1..n -> 1..n] : \A i, j \in 1..n : q[i] = q[j] => i = j}}

\* ------------------------------------------------------------------------
\* Properties
\* ------------------------------------------------------------------------
\* C1: No-downgrade.  For a well-formed current version, whatever list was
\* fetched, a returned target never has a major component less than or equal
\* to the current major; so a same-major minor or patch bump is never returned.
NoDowngrade ==
  (Resolved /\ WellFormed(current) /\ latest # Null)
    => ~Le(MajorOf(latest), MajorOf(current))

\* C1 witness: a target was returned although the list also held a well-formed
\* version of the current major that is newer than the pin.
NoDowngradeWitness ==
  /\ Resolved /\ WellFormed(current) /\ latest # Null
  /\ \E i \in Candidates :
       /\ MajorOf(releases[i]) = MajorOf(current)
       /\ isNewerVersion(current, releases[i])

\* C2: Monotonicity.  For a well-formed current version and any fetched list,
\* a returned target is newer than the pin according to isNewerVersion, so
\* the guard of run never discards a target the engine selected.
Monotonic ==
  (Resolved /\ WellFormed(current) /\ latest # Null)
    => isNewerVersion(current, latest)

\* C3: Upgrade gate.  For a well-formed current version, nothing is returned
\* exactly when no candidate has a major strictly greater than the current
\* major (an empty or all-invalid list included).
UpgradeGate ==
  (Resolved /\ WellFormed(current))
    => ((latest = Null) <=> ~SomeGreaterMajor)

\* C4: MAJOR-precision selection.  For a current version written as a major
\* alone, when the gate passes, the target is a major-only candidate of the
\* best major line if there is one, else a major.minor candidate of that
\* line if there is one, else the best candidate in full.
MajorSelection ==
  (Resolved /\ WellFormed(current) /\ Precision(current) = 1 /\ SomeGreaterMajor)
    => IF OnBestLine(1) # {} THEN \E i \in OnBestLine(1) : latest = releases[i]
       ELSE IF OnBestLine(2) # {} THEN \E i \in OnBestLine(2) : latest = releases[i]
       ELSE \E b \in Best : latest = <<"v">> \o StripV(releases[b])

\* C5: MINOR-precision selection.  For a current version written as
\* major.minor, when the gate passes, the target is a major.minor candidate of
\* the best major line if there is one, else the best candidate cut down to
\* major.minor; the target always has exactly two numeric components.  Stated
\* here for lists of well-formed entries, which already refute it.
MinorSelectionTruncates ==
  (Resolved /\ WellFormed(current) /\ Precision(current) = 2
     /\ AllWellFormed /\ SomeGreaterMajor)
    => /\ IF OnBestLine(2) # {} THEN \E i \in OnBestLine(2) : latest = releases[i]
          ELSE \E b \in Best : latest = fullVersionTruncated(parseVersion(releases[b]))
       /\ WellFormed(latest) /\ Precision(latest) = 2

\* C6: FULL-precision selection returns the highest candidate.  For a current
\* version written as major.minor.patch, when the gate passes, the target is
\* 'v' + raw of the candidate ranking highest under (major, minor ?? -1,
\* patch ?? -1), whatever the order of the fetched list.  Stated here for
\* lists of well-formed entries, which already refute it.
FullReturnsBest ==
  (Resolved /\ WellFormed(current) /\ Precision(current) = 3
     /\ AllWellFormed /\ SomeGreaterMajor)
    => \E b \in Best : latest = <<"v">> \o StripV(releases[b])

\* C7: FULL-precision pins keep their precision.  For a current version
\* written as major.minor.patch, a returned target has all three components,
\* also when major-only or major.minor candidates are on the target major
\* line.  Stated here for lists of well-formed entries whose best major line
\* holds a full version, which already refute it.
FullKeepsPrecision ==
  (Resolved /\ WellFormed(current) /\ Precision(current) = 3
     /\ AllWellFormed /\ OnBestLine(3) # {} /\ latest # Null)
    => (WellFormed(latest) /\ Precision(latest) = 3)

\* C8: parseVersion never coerces.  A string that is not of the form
\* v?<int>(.<int>(.<int>)?)? is rejected: no parse of a malformed pin or of a
\* malformed fetched name is a VersionSpec.
ParseRejectsMalformed ==
  /\ (pc # "scan" /\ ~WellFormed(current)) => ~IsVersionSpec(parseVersion(current))
  /\ \A i \in 1..Len(releases) :
       ~WellFormed(releases[i]) => ~IsVersionSpec(parseVersion(releases[i]))

\* C9: malformed candidates have no influence.  The result for a fetched list
\* is the result for that list with its malformed entries removed.
MalformedNoInfluence ==
  Resolved => latest = getLatestVersion(current, WellFormedOnly(releases))

\* C10: a malformed current version is fatal to resolving the reference: it
\* never gets an upgrade target, whatever the candidates are.
MalformedPinFails ==
  (Resolved /\ ~WellFormed(current)) => latest = Null

\* C11: isNewerVersion is the specified comparator.  For a well-formed pin
\* and every well-formed fetched candidate, taken either way round,
\* isNewerVersion answers as the comparison at the precision of its first
\* argument does, a component missing on the other side being 0.
ComparatorAsSpecified ==
  (pc = "guard" /\ WellFormed(current)) =>
    \A i \in Candidates :
      /\ isNewerVersion(current, releases[i]) <=> SpecIsNewer(current, releases[i])
      /\ isNewerVersion(releases[i], current) <=> SpecIsNewer(releases[i], current)

\* C11 witness: the pin has been compared with a candidate of its major that
\* lacks one of the pin's components, and with one that is newer by a minor
\* or a patch alone.
ComparatorWitness ==
  /\ pc = "guard" /\ WellFormed(current)
  /\ \E i \in Candidates :
       /\ MajorOf(releases[i]) = MajorOf(current)
       /\ Precision(releases[i]) < Precision(current)
  /\ \E i \in Candidates :
       /\ MajorOf(releases[i]) = MajorOf(current)
       /\ isNewerVersion(current, releases[i])

\* C12: the final guard is always consulted.  createPullRequest starts only
\* for the action whose lookup, in this iteration, returned a target that
\* isNewerVersion finds newer than its pin; calls are made, pull requests
\* opened and updates counted only while it runs, for that action and that
\* target; no pull request is opened on any other path.
GuardConsulted ==
  [][/\ (pc # "pr" /\ pc' = "pr")
          => /\ pc = "guard"
             /\ current = actions[idx].currentVersion
             /\ latest # Null /\ latest # <<>>
             /\ isNewerVersion(actions[idx].currentVersion, latest)
             /\ calls = <<>>
     /\ (calls' # calls \/ pulls' # pulls \/ updateCount' # updateCount)
          => (pc = "pr" \/ pc' = "pr")
     /\ pc = "pr"
          => /\ <<actions, current, latest>>' = <<actions, current, latest>>
             /\ pc' = "pr" => idx' = idx
     /\ pulls' # pulls
          => /\ Len(pulls') = Len(pulls) + 1
             /\ SubSeq(pulls', 1, Len(pulls)) = pulls
             /\ pulls'[Len(pulls')].action = actions[idx]
             /\ pulls'[Len(pulls')].newVersion = latest
             /\ isNewerVersion(actions[idx].currentVersion, latest)]_vars

\* C12 witness: a pull request has been opened, all calls made.
GuardConsultedWitness ==
  /\ Len(pulls) > 0 /\ calls = ApiCalls /\ updateCount > 0
  /\ isNewerVersion(current, latest)

\* C13: input order does not matter.  For a well-formed current version,
\* getLatestVersion returns for every reordering of the fetched list what it
\* returned for the list.  Stated here for lists of well-formed entries,
\* which already refute it.
OrderIndependent ==
  (Resolved /\ WellFormed(current) /\ AllWellFormed)
    => \A list \in Reorderings(releases) : getLatestVersion(current, list) = latest

SubstitutionAtReference ==
  \A i \in 1..Len(pulls) :
    LET p == pulls[i]
    IN (\A k \in 1..Len(p.newVersion) : p.newVersion[k] # "$")
         => p.content = Join([workflow EXCEPT ![p.action.step] =
                                reference(p.action, p.newVersion)], "\n")

\* C16: the scan reports only third-party actions.  No scanned reference has
\* the owner 'actions', so run never looks up a GitHub-owned action nor opens
\* a pull request for one.
ScanExcludesGitHubActions ==
  /\ \A i \in 1..Len(actions) :
       /\ actions[i].owner # <<"a", "c", "t", "i", "o", "n", "s">>
       /\ ~actions[i].isGitHubAction
  /\ \A i \in 1..Len(pulls) : ~pulls[i].action.isGitHubAction

\* C17: the latest version is determined from both releases and tags.  When
\* no release of the upstream yields a valid version but a tag of the
\* upstream is a version of a greater major than the well-formed pin,
\* getLatestVersion returns a target.
TagsDetermineTarget ==
  (/\ pc = "guard"
   /\ current # Undefined /\ WellFormed(current)
   /\ \A i \in 1..Len(releases) : ~validate(StripV(releases[i]))
   /\ \E t \in 1..Len(tags) :
        WellFormed(tags[t]) /\ Gt(MajorOf(tags[t]), MajorOf(current)))
    => latest # Null

\* C18: one pull request for each action that needs updating.  No two pull
\* requests of a run are for the same owner/repo@currentVersion and the same
\* target version, however many steps use that action.
OnePullRequestPerAction ==
  \A i, j \in 1..Len(pulls) :
    (/\ pulls[i].action.owner = pulls[j].action.owner
     /\ pulls[i].action.repo = pulls[j].action.repo
     /\ pulls[i].action.currentVersion = pulls[j].action.currentVersion
     /\ pulls[i].newVersion = pulls[j].newVersion)
      => i = j

\* C19: NoUpdate is a result, not an error.  When no candidate of the fetched
\* list is newer than the well-formed pin, getLatestVersion has returned
\* null, and run makes no call of createPullRequest for the action, opens no
\* pull request, and goes on to the next action or ends normally.
NoUpdateIsResult ==
  [][(/\ pc = "guard" /\ WellFormed(current)
      /\ \A i \in Candidates : ~isNewerVersion(current, releases[i]))
       => /\ latest = Null
          /\ calls' = calls /\ pulls' = pulls /\ updateCount' = updateCount
          /\ idx' = idx + 1
          /\ pc' = IF idx < Len(actions) THEN "fetch" ELSE "done"]_vars

\* C20: actions are handled strictly one at a time and in scan order.  At
\* most one action is being handled at any time, and it is the one the loop
\* is at; a lookup starts, and the run ends, only when no handling is going
\* on; references and pull requests follow the order of the steps.
OneAtATime ==
  /\ Cardinality(inflight) <= 1
  /\ pc \in {"list", "resolve", "guard", "pr"}
       => (inflight = {idx} /\ idx \in 1..Len(actions))
  /\ pc \in {"scan", "fetch", "done", "failed"} => inflight = {}
  /\ pc = "fetch" => idx \in 1..Len(actions)
  /\ \A i, j \in 1..Len(actions) : i < j => actions[i].step < actions[j].step
  /\ \A i, j \in 1..Len(pulls) : i < j => pulls[i].action.step < pulls[j].action.step
  /\ \A i \in 1..Len(pulls) : \E k \in 1..(idx - 1) : pulls[i].action = actions[k]

\* C20 witness: the second action is being handled after the handling of the
\* first, a pull request included, has finished.
OneAtATimeWitness ==
  /\ pc = "guard" /\ idx = 2 /\ inflight = {2}
  /\ Len(pulls) = 1 /\ pulls[1].action = actions[1]

\* C21: parseVersion round-trips.  The raw of a parse is the string without
\* its one leading lower-case 'v', or the string itself when it has none (an
\* upper-case 'V' stays); and for a well-formed string, parsing 'v' + raw
\* gives the same major, minor, patch and raw.
ParseRoundTrips ==
  pc = "guard" =>
    \A s \in {current} \cup {releases[i] : i \in 1..Len(releases)} :
      LET v == parseVersion(s)
      IN /\ s = (IF s[1] = "v" THEN <<"v">> ELSE <<>>) \o v.raw
         /\ WellFormed(s) => parseVersion(<<"v">> \o v.raw) = v

\* C21 witness: a pin written without 'v' and a pin written with 'V' have
\* been parsed, and a fetched name with two leading 'v'.
ParseRoundTripsWitness ==
  /\ pc = "guard"
  /\ current[1] \in {"4", "V"}
  /\ \E i \in 1..Len(releases) : releases[i][1] = "v" /\ releases[i][2] = "v"
  /\ \E i \in Candidates : Precision(releases[i]) = 3

\* C22: parseVersion keeps the written precision.  In every parse a patch
\* comes with a minor; the parse of a well-formed string has exactly the
\* components the string is written with, each a number, and differs from
\* the parse of the string with '.0' added, which has one component more.
ParseKeepsPrecision ==
  pc = "guard" =>
    \A s \in {current} \cup {releases[i] : i \in 1..Len(releases)} :
      LET v == parseVersion(s)
          written == Cardinality({i \in 1..Len(s) : s[i] = "."}) + 1
          z == parseVersion(s \o <<".", "0">>)
      IN /\ v.patch # Undef => v.minor # Undef
         /\ WellFormed(s) =>
              /\ IsNum(v.major)
              /\ IF written >= 2 THEN IsNum(v.minor) ELSE v.minor = Undef
              /\ IF written = 3 THEN IsNum(v.patch) ELSE v.patch = Undef
              /\ written < 3 =>
                   /\ z # v /\ z.major = v.major
                   /\ IF written = 1 THEN z.minor = Num(0) /\ z.patch = Undef
                      ELSE z.minor = v.minor /\ z.patch = Num(0)

\* C22 witness: a major-only pin and candidates of two and of three
\* components have been parsed.
ParseKeepsPrecisionWitness ==
  /\ pc = "guard" /\ WellFormed(current) /\ Precision(current) = 1
  /\ \E i \in Candidates : Precision(releases[i]) = 2
  /\ \E i \in Candidates : Precision(releases[i]) = 3

\* C23: the target stays on the best major line.  Whenever getLatestVersion
\* returns a target for a well-formed current version, of any precision, the
\* major of the target is the highest major among the candidates.
TargetOnBestLine ==
  (Resolved /\ WellFormed(current) /\ latest # Null)
    => \E b \in Best : ~StrictNe(MajorOf(latest), MajorOf(releases[b]))

\* C24: isNewerVersion is a strict order on well-formed versions.  Among the
\* well-formed pin and the well-formed names fetched for it, no version is newer
\* than itself, no two are each newer than the other, newer-than is
\* transitive, and a candidate that is equal to the pin or ranks at or below
\* it is not newer than the pin.
ComparatorIsStrict ==
  (pc = "guard" /\ WellFormed(current) /\ AllWellFormed) =>
    LET versions == {current} \cup {releases[i] : i \in Candidates}
        newer == [a \in versions |-> {b \in versions : isNewerVersion(a, b)}]
    IN /\ \A a \in versions : a \notin newer[a]
       /\ \A a \in versions : \A b \in newer[a] :
            /\ a \notin newer[b]
            /\ ~KeyLe(Key(b), Key(a))
            /\ newer[b] \subseteq newer[a]

\* C24 witness: the pin has been compared with a candidate that parses to
\* the same components, with an older one and with a newer one.
ComparatorIsStrictWitness ==
  /\ pc = "guard" /\ WellFormed(current) /\ AllWellFormed
  /\ \E i \in Candidates : Key(releases[i]) = Key(current)
  /\ \E i \in Candidates : isNewerVersion(releases[i], current)
  /\ \E i \in Candidates : isNewerVersion(current, releases[i])

\* C25: every target names a published version.  A string getLatestVersion
\* returns is, character for character, the name of a release of the
\* fetched list.
TargetIsPublished ==
  (pc = "guard" /\ latest # Null)
    => \E i \in 1..Len(releases) : releases[i] = latest

\* C26: one failing action never stops the run.  Whichever API calls fail
\* in getLatestVersion or createPullRequest, the loop moves on by one action
\* at a time, only after the action it is at has been looked up; no call that
\* throws marks the run failed (the run fails only before the scan has
\* yielded anything, or when createPullRequest cannot read the workflow file,
\* before it makes any call); and unless that happens the run ends in its
\* final step with every scanned action handled.
RunCompletes ==
  /\ [][idx' # idx => (/\ pc \in {"guard", "pr"}
                       /\ inflight = {idx}
                       /\ idx' = idx + 1)]_vars
  /\ [][pc' = "failed" => (/\ pc \in {"scan", "guard"}
                           /\ calls = <<>> /\ calls' = <<>>)]_vars
  /\ [](pc \in {"scan", "fetch", "list", "resolve", "guard", "pr", "done",
                "failed"})
  /\ (<>(pc = "failed") \/ <>[](pc = "done" /\ idx = Len(actions) + 1))

\* C26 witness: a run over two actions has ended although the lookup of the
\* first returned a target whose pull request failed and the last call of
\* createPullRequest for the second was one that threw.
RunCompletesWitness ==
  /\ pc = "done" /\ Len(actions) = 2 /\ idx = 3
  /\ updateCount = 2 /\ Len(pulls) = 0
  /\ calls # <<>> /\ calls # ApiCalls

\* C27: the reported count is the number of pull requests opened.  At the
\* end of run, updateCount is the number of actions for which pulls.create
\* completed.
CountIsPullRequests ==
  pc = "done" => updateCount = Len(pulls)

\* C28: createPullRequest opens the pull request last.  The calls it makes
\* are getRef, createRef, getContent, createOrUpdateFileContents and
\* pulls.create in that order, one at a time while it runs, none after one
\* that threw; a pull request is opened only when all five have been made,
\* pulls.create the last.
PullRequestOpenedLast ==
  [][((calls' # calls /\ calls' # <<>>) \/ pulls' # pulls)
       => LET order == <<"getRef", "createRef", "getContent",
                         "createOrUpdateFileContents", "pulls.create">>
          IN /\ Len(calls') \in 1..5
             /\ \A i \in 1..Len(calls') : calls'[i] = order[i]
             /\ calls' # calls
                  => /\ pc' = "pr"
                     /\ pulls' = pulls
                     /\ Len(calls') = (IF pc = "pr" THEN Len(calls) ELSE 0) + 1
             /\ pulls' # pulls
                  => /\ pc = "pr" /\ calls = order /\ calls' = calls
                     /\ Len(pulls') = Len(pulls) + 1]_vars

\* C28 witness: getContent threw, after the branch was created: nothing was
\* called after it and no pull request was opened.
PullRequestOpenedLastWitness ==
  /\ calls = <<"getRef", "createRef", "getContent">>
  /\ pulls = <<>> /\ updateCount = 1

\* C29: the shipped build decides like the source.  For the current version
\* and the candidate names at hand, the build's getLatestVersion followed by
\* the guard leads to a pull request exactly when the source's does, and for
\* the same target.  Stated here for a well-formed current version and
\* well-formed names, which already refute it.
BuildDecidesLikeSource ==
  (pc = "guard" /\ WellFormed(current) /\ AllWellFormed) =>
    LET target == distGetLatestVersion(current, releases)
        sourceProposes == ~NoTarget(latest) /\ isNewerVersion(current, latest)
        buildProposes == ~NoTarget(target) /\ isNewerVersion(current, target)
    IN /\ sourceProposes <=> buildProposes
       /\ sourceProposes => target = latest

\* C30: a non-numeric pin is never rewritten.  No pull request is for an
\* action whose current version has a major component that is not a number.
NonNumericPinKept ==
  \A i \in 1..Len(pulls) : IsNum(MajorOf(pulls[i].action.currentVersion))

====
